---- MODULE Spec2Model ----
(***************************************************************************)
(* A model of the TIS-100 program search of src/src/main.ts: the lazily    *)
(* decided program (ParamContext), the single-node emulator (emulateNode)  *)
(* and the search driver (solve).                                          *)
(*                                                                         *)
(* A decision key `${kind}-node00:${pc}` is modelled as the pair           *)
(* <<kind, pc>>; the two determine each other.  The report string          *)
(* JSON.stringify([pc, acc, bak]) is modelled as the triple <<pc,acc,bak>> *)
(* and a join(";") of a list of numbers as the list itself: both           *)
(* serialisations are injective on the values the program gives them       *)
(* (-0 prints as 0 and also compares equal to 0 everywhere it is used).    *)
(***************************************************************************)
EXTENDS Integers, Sequences, FiniteSets, TLC

\* ------------------------------------------------------------------ bounds

\* The longest scenario list solve is called with.
MaxScenarios == 2

\* The number of candidates solve may pop before the model stops following it.
MaxWork == 40

\* ------------------------------------------------------- program constants

MAX_INSTRS == 3

ACC_MAX == 999

READ_OPTIONS == <<"UP", "LEFT", "RIGHT", "DOWN", "ACC", "sym">>

WRITE_OPTIONS == <<"UP", "LEFT", "RIGHT", "DOWN", "ACC", "NIL">>

OP_OPTIONS == <<"ADD", "SUB", "MOV", "NEG", "SWP", "SAV", "NOP">>

CONST_OPTIONS == <<0, 2>>

\* Every option that is a JavaScript string.
StringOptions ==
    {READ_OPTIONS[i] : i \in DOMAIN READ_OPTIONS}
        \cup {WRITE_OPTIONS[i] : i \in DOMAIN WRITE_OPTIONS}
        \cup {OP_OPTIONS[i] : i \in DOMAIN OP_OPTIONS}

\* typeof v === "number", for v a value loaded from a string-valued param.
typeofNumber(v) == v \notin StringOptions

\* ------------------------------------------------------------ the scenarios

\* The scenarios the scenario lists are drawn from.
ScenarioPool ==
    { [input |-> <<1>>, output |-> <<1>>],
      [input |-> <<2>>, output |-> <<2>>],
      [input |-> <<2>>, output |-> <<0>>],
      [input |-> <<1>>, output |-> <<2>>],
      [input |-> <<1>>, output |-> <<2, 2>>],
      [input |-> <<1>>, output |-> <<>>] }

ScenarioLists == UNION {[1..n -> ScenarioPool] : n \in 0..MaxScenarios}

\* ------------------------------------------------------------------ params

param(name, options) == [key |-> name, options |-> options]

argRead(pc) == param(<<"read-arg", pc>>, READ_OPTIONS)

argWrite(pc) == param(<<"write-arg", pc>>, WRITE_OPTIONS)

paramOp(pc) == param(<<"op", pc>>, OP_OPTIONS)

constantParam(pc) == param(<<"const", pc>>, CONST_OPTIONS)

\* The value of a Param<any> | null variable that holds null.
NullParam == param(<<"null", 0>>, <<>>)

emptyContext == <<>>

\* param.key in context.values
Bound(context, p) == p.key \in DOMAIN context

\* ------------------------------------------------------------------ errors

NoError == [type |-> "none", site |-> "none", param |-> NullParam]

\* Mutant of ParamMissingError: the error does not carry the param.
ParamMissingErrorNoParam(p) ==
    [type |-> "ParamMissingError", site |-> "loadParam", param |-> NullParam]

ParamMissingError(p) == [type |-> "ParamMissingError", site |-> "loadParam", param |-> p]

StateViolationError(site) == [type |-> "StateViolationError", site |-> site, param |-> NullParam]

StuckError == [type |-> "StuckError", site |-> "recv", param |-> NullParam]

DoneError == [type |-> "DoneError", site |-> "send", param |-> NullParam]

\* A plain Error: `unreachable` in send, `already assigned` in assignParam.
FatalError(site) == [type |-> "Error", site |-> site, param |-> NullParam]

Thrown(r) == r.err.type # "none"

\* ----------------------------------------------------------- decision store

\* Mutant of loadParam: the key is reported missing although it is bound.
loadParamForgets(context, p) ==
    [err |-> ParamMissingError(p), value |-> 0]

loadParam(context, p) ==
    IF Bound(context, p)
    THEN [err |-> NoError, value |-> context[p.key]]
    ELSE [err |-> ParamMissingError(p), value |-> 0]

\* { ...context.values, [param.key]: value }
Extend(context, p, value) ==
    (p.key :> value) @@ context

\* Mutant of assignParam: the new store is the old one, the key is not added.
assignParamNoBind(context, p, value) ==
    IF Bound(context, p)
    THEN [err |-> FatalError("already assigned"), value |-> context]
    ELSE [err |-> NoError, value |-> context]

assignParam(context, p, value) ==
    IF Bound(context, p)
    THEN [err |-> FatalError("already assigned"), value |-> context]
    ELSE [err |-> NoError, value |-> Extend(context, p, value)]

\* Mutant of bifurcateParam: the children come in reverse option order.
bifurcateParamReversed(context, p) ==
    IF p.options # <<>> /\ Bound(context, p)
    THEN [err |-> FatalError("already assigned"), value |-> <<>>]
    ELSE [err |-> NoError,
          value |-> [i \in DOMAIN p.options |->
                        assignParam(context, p, p.options[Len(p.options) + 1 - i]).value]]

\* param.options.map((option) => assignParam(context, param, option)): the
\* children in option order, or the error of the first assignParam that throws.
bifurcateParam(context, p) ==
    IF p.options # <<>> /\ Bound(context, p)
    THEN [err |-> FatalError("already assigned"), value |-> <<>>]
    ELSE [err |-> NoError,
          value |-> [i \in DOMAIN p.options |-> assignParam(context, p, p.options[i]).value]]

\* ------------------------------------------------- arithmetic and interaction

\* A machine state m is [pc, acc, bak, inputCounter, outputCounter, io]: the
\* locals of emulateNode, the two cursors of the scenario's interaction, and,
\* as history, the calls the emulator has made on the interaction.
Machine(pc, acc, bak, ic, oc) ==
    [pc |-> pc, acc |-> acc, bak |-> bak, inputCounter |-> ic, outputCounter |-> oc,
     io |-> <<>>]

\* History: the call is appended when interaction.recv or .send is entered;
\* value is the value sent, or the value received (0 when recv throws).
Called(m, call, port, value) ==
    [m EXCEPT !.io = Append(@, [call |-> call, port |-> port, value |-> value])]

zero == 0

\* Mutant of add: the sum is returned without the bound check.
addUnchecked(a, b) == [err |-> NoError, value |-> a + b]

add(a, b) ==
    LET v == a + b
    IN  IF v > ACC_MAX \/ v < -ACC_MAX
        THEN [err |-> StateViolationError("add"), value |-> v]
        ELSE [err |-> NoError, value |-> v]

\* Mutant of neg: the value is returned as it is.
negIdentity(a) == a

neg(a) == -a

symbol(context, place) == loadParam(context, constantParam(place))

\* interaction.recv: [err, value, m]
interactionRecv(scenario, port, m) ==
    IF port # "UP"
    THEN [err |-> StateViolationError("recv port"), value |-> 0,
          m |-> Called(m, "recv", port, 0)]
    ELSE IF m.inputCounter >= Len(scenario.input)
    THEN [err |-> StuckError, value |-> 0, m |-> Called(m, "recv", port, 0)]
    ELSE LET result == scenario.input[m.inputCounter + 1]
         IN  [err |-> NoError,
              value |-> result,
              m |-> [Called(m, "recv", port, result) EXCEPT !.inputCounter = @ + 1]]

\* Mutant of interaction.send: the value sent is not compared.
interactionSendAnyValue(scenario, port, value, m) ==
    IF port # "DOWN"
    THEN [err |-> StateViolationError("send port"), m |-> Called(m, "send", port, value)]
    ELSE IF m.outputCounter >= Len(scenario.output)
    THEN [err |-> FatalError("unreachable"), m |-> Called(m, "send", port, value)]
    ELSE LET m1 == [Called(m, "send", port, value) EXCEPT !.outputCounter = @ + 1]
         IN  IF m1.outputCounter >= Len(scenario.output)
             THEN [err |-> DoneError, m |-> m1]
             ELSE [err |-> NoError, m |-> m1]

\* Mutant of interaction.send: DoneError is not thrown after the last value.
interactionSendNeverDone(scenario, port, value, m) ==
    IF port # "DOWN"
    THEN [err |-> StateViolationError("send port"), m |-> Called(m, "send", port, value)]
    ELSE IF m.outputCounter >= Len(scenario.output)
    THEN [err |-> FatalError("unreachable"), m |-> Called(m, "send", port, value)]
    ELSE IF value # scenario.output[m.outputCounter + 1]
    THEN [err |-> StateViolationError("send value"), m |-> Called(m, "send", port, value)]
    ELSE [err |-> NoError,
          m |-> [Called(m, "send", port, value) EXCEPT !.outputCounter = @ + 1]]

\* interaction.send: [err, m]
interactionSend(scenario, port, value, m) ==
    IF port # "DOWN"
    THEN [err |-> StateViolationError("send port"), m |-> Called(m, "send", port, value)]
    ELSE IF m.outputCounter >= Len(scenario.output)
    THEN [err |-> FatalError("unreachable"), m |-> Called(m, "send", port, value)]
    ELSE IF value # scenario.output[m.outputCounter + 1]
    THEN [err |-> StateViolationError("send value"), m |-> Called(m, "send", port, value)]
    ELSE LET m1 == [Called(m, "send", port, value) EXCEPT !.outputCounter = @ + 1]
         IN  IF m1.outputCounter >= Len(scenario.output)
             THEN [err |-> DoneError, m |-> m1]
             ELSE [err |-> NoError, m |-> m1]

\* ------------------------------------------------------------------ emulator

\* emulateNode's recv(src, place): [err, value, m]
recv(context, scenario, src, place, m) ==
    IF src = "ACC"
    THEN [err |-> NoError, value |-> m.acc, m |-> m]
    ELSE IF src = "sym"
    THEN LET c == symbol(context, place)
         IN  [err |-> c.err, value |-> c.value, m |-> m]
    ELSE interactionRecv(scenario, src, m)

\* emulateNode's send(dst, value): [err, m]
send(scenario, dst, value, m) ==
    IF dst = "NIL"
    THEN [err |-> NoError, m |-> m]
    ELSE IF dst = "ACC"
    THEN [err |-> NoError, m |-> [m EXCEPT !.acc = value]]
    ELSE interactionSend(scenario, dst, value, m)

\* recv(loadParam(program, argRead(instructionLocation)), instructionLocation)
recvArg(context, scenario, m) ==
    LET src == loadParam(context, argRead(m.pc))
    IN  IF src.err.type # "none"
        THEN [err |-> src.err, value |-> 0, m |-> m]
        ELSE recv(context, scenario, src.value, m.pc, m)

\* The ADD closure (sign = 1) and the SUB closure (sign = -1): [err, m]
ADDSUB(context, scenario, m, sign) ==
    LET from == recvArg(context, scenario, m)
    IN  IF Thrown(from)
        THEN [err |-> from.err, m |-> from.m]
        ELSE LET v == add(from.m.acc, IF sign = 1 THEN from.value ELSE neg(from.value))
             IN  IF Thrown(v)
                 THEN [err |-> v.err, m |-> from.m]
                 ELSE [err |-> NoError, m |-> [from.m EXCEPT !.acc = v.value]]

\* The sanity check for pointless programs that ends the MOV closure.
Pointless(dst, read) == dst = "NIL" /\ (typeofNumber(read) \/ read = "ACC")

\* The MOV closure: [err, m]
MOV(context, scenario, m) ==
    LET from == recvArg(context, scenario, m)
    IN  IF Thrown(from)
        THEN [err |-> from.err, m |-> from.m]
        ELSE LET dst == loadParam(context, argWrite(m.pc))
             IN  IF Thrown(dst)
                 THEN [err |-> dst.err, m |-> from.m]
                 ELSE LET sent == send(scenario, dst.value, from.value, from.m)
                      IN  IF Thrown(sent)
                          THEN sent
                          ELSE IF Pointless(dst.value, context[argRead(m.pc).key])
                          THEN [err |-> StateViolationError("pointless"), m |-> sent.m]
                          ELSE sent

NEG(m) == [err |-> NoError, m |-> [m EXCEPT !.acc = neg(m.acc)]]

SWP(m) == [err |-> NoError, m |-> [m EXCEPT !.acc = m.bak, !.bak = m.acc]]

SAV(m) == [err |-> NoError, m |-> [m EXCEPT !.bak = m.acc]]

NOP(m) == [err |-> NoError, m |-> m]

\* pc++; pc %= MAX_INSTRS
NextPc(pc) == (pc + 1) % MAX_INSTRS

\* One turn of emulateNode's loop after the report: load the opcode, run its
\* closure, advance pc.  [err, m]
Execute(context, scenario, m) ==
    LET op == loadParam(context, paramOp(m.pc))
    IN  IF Thrown(op)
        THEN [err |-> op.err, m |-> m]
        ELSE LET r == CASE op.value = "ADD" -> ADDSUB(context, scenario, m, 1)
                        [] op.value = "SUB" -> ADDSUB(context, scenario, m, -1)
                        [] op.value = "MOV" -> MOV(context, scenario, m)
                        [] op.value = "NEG" -> NEG(m)
                        [] op.value = "SWP" -> SWP(m)
                        [] op.value = "SAV" -> SAV(m)
                        [] op.value = "NOP" -> NOP(m)
             IN  IF Thrown(r)
                 THEN r
                 ELSE [err |-> NoError, m |-> [r.m EXCEPT !.pc = NextPc(@)]]

\* emulateNode run with a report callback that does nothing, for at most
\* `fuel` instructions: the type of the error that ends it, or "running".
RECURSIVE PlainRun(_, _, _, _)
PlainRun(context, scenario, m, fuel) ==
    IF fuel = 0
    THEN "running"
    ELSE LET r == Execute(context, scenario, m)
         IN  IF Thrown(r) THEN r.err.type ELSE PlainRun(context, scenario, r.m, fuel - 1)

\* ---------------------------------------------------------------- formatter

\* One line of nice(program) after its `${pc}: `, as the pieces appended to s;
\* "???" is appended by the catch of the first loadParam that throws.
niceLine(program, pc) ==
    LET op == loadParam(program, paramOp(pc))
        read == loadParam(program, argRead(pc))
        write == loadParam(program, argWrite(pc))
    IN  IF Thrown(op) THEN <<"???">>
        ELSE IF op.value = "ADD" \/ op.value = "SUB"
        THEN IF Thrown(read) THEN <<op.value, "???">> ELSE <<op.value, read.value>>
        ELSE IF op.value = "MOV"
        THEN IF Thrown(read) THEN <<op.value, "???">>
             ELSE IF Thrown(write) THEN <<op.value, read.value, "???">>
             ELSE <<op.value, read.value, write.value>>
        ELSE <<op.value>>

nice(program) == [pc \in 0..(MAX_INSTRS - 1) |-> niceLine(program, pc)]

\* -------------------------------------------------------------------- state

VARIABLES
    scenarios,       \* solve's argument
    search,          \* the work stack, its top last
    workCount,
    phase,           \* where solve stands: "loop", "run", "caught", "decide",
                     \* or ended: "success", "exhausted", "fatal"
    context,         \* the candidate popped
    bifurcation,
    violation,
    doneCount,
    targetable,      \* Map<detailState, target> of the candidate
    si,              \* the index of the scenario being run, from 1
    encounters,      \* Set<fullReport> of the run
    machine,         \* pc, acc, bak of the run and the scenario's two cursors
    err,             \* the error thrown out of emulateNode or out of solve
    reports,         \* history: every report of the candidate's runs, as
                     \* <<scenario index, remaining input, state, remaining output>>
    runs,            \* history: the candidate's finished runs in scenario order,
                     \* each [outcome: the error type that ended it, io: its calls]
    firstBifurcation, \* history: the param of the candidate's first ParamMissingError
    popped           \* history: the candidates popped so far, in pop order

vars ==
    <<scenarios, search, workCount, phase, context, bifurcation, violation,
      doneCount, targetable, si, encounters, machine, err, reports,
      runs, firstBifurcation, popped>>

candidateVars == <<context, bifurcation, violation, doneCount, targetable>>

runVars == <<si, encounters, machine>>

historyVars == <<reports, runs, firstBifurcation, popped>>

Init ==
    /\ scenarios \in ScenarioLists
    /\ search = <<emptyContext>>
    /\ workCount = 0
    /\ phase = "loop"
    /\ context = emptyContext
    /\ bifurcation = NullParam
    /\ violation = FALSE
    /\ doneCount = 0
    /\ targetable = <<>>
    /\ si = 0
    /\ encounters = {}
    /\ machine = Machine(0, zero, zero, 0, 0)
    /\ err = NoError
    /\ reports = {}
    /\ runs = <<>>
    /\ firstBifurcation = NullParam
    /\ popped = <<>>

\* ------------------------------------------------------------ report hook

State(m) == <<m.pc, m.acc, m.bak>>

\* `${report};${inputCounter};${outputCounter}`
fullReport(m) == <<State(m), m.inputCounter, m.outputCounter>>

\* scenario.output.slice(outputCounter)
target(scenario, m) == SubSeq(scenario.output, m.outputCounter + 1, Len(scenario.output))

\* `${scenario.input.slice(inputCounter).join(";")} -> ${report}`
detailState(scenario, m) ==
    <<SubSeq(scenario.input, m.inputCounter + 1, Len(scenario.input)), State(m)>>

\* Mutant of Collides: the table is never consulted.
CollidesNever(table, scenario, m) == FALSE

\* targetable.has(detailState) && targetable.get(detailState) !== target
Collides(table, scenario, m) ==
    /\ detailState(scenario, m) \in DOMAIN table
    /\ table[detailState(scenario, m)] # target(scenario, m)

\* targetable.set(detailState, target)
TableSet(table, k, v) ==
    (k :> v) @@ table

\* Mutant of report: encounters is filled but never consulted.
reportNoLoopCheck(scenario, m, enc, table) ==
    IF Collides(table, scenario, m)
    THEN [err |-> StateViolationError("collision"),
          encounters |-> enc \cup {fullReport(m)}, targetable |-> table]
    ELSE [err |-> NoError,
          encounters |-> enc \cup {fullReport(m)},
          targetable |-> TableSet(table, detailState(scenario, m), target(scenario, m))]

\* The report callback solve hands to emulateNode: [err, encounters, targetable]
report(scenario, m, enc, table) ==
    IF fullReport(m) \in enc
    THEN [err |-> StateViolationError("infinite loop"),
          encounters |-> enc, targetable |-> table]
    ELSE IF Collides(table, scenario, m)
    THEN [err |-> StateViolationError("collision"),
          encounters |-> enc \cup {fullReport(m)}, targetable |-> table]
    ELSE [err |-> NoError,
          encounters |-> enc \cup {fullReport(m)},
          targetable |-> TableSet(table, detailState(scenario, m), target(scenario, m))]

\* ------------------------------------------------------------------- solve

\* The body of `for (const scenario of scenarios)` is entered for scenario i,
\* or the loop is over.
EnterScenario(i) ==
    IF i <= Len(scenarios)
    THEN /\ phase' = "run"
         /\ si' = i
         /\ encounters' = {}
         /\ machine' = Machine(0, zero, zero, 0, 0)
    ELSE /\ phase' = "decide"
         /\ UNCHANGED runVars

\* Mutant of ResetCandidate: bifurcation is declared outside the while loop
\* and keeps the value the previous candidate left in it.
ResetCandidateKeepsBifurcation ==
    /\ UNCHANGED bifurcation
    /\ violation' = FALSE
    /\ doneCount' = 0
    /\ targetable' = <<>>

\* The locals a turn of the while loop declares before it runs the program.
ResetCandidate ==
    /\ bifurcation' = NullParam
    /\ violation' = FALSE
    /\ doneCount' = 0
    /\ targetable' = <<>>

\* Mutant of Pop: search.shift() for search.pop(), the oldest store is taken.
PopOldest ==
    /\ phase = "loop"
    /\ search # <<>>
    /\ workCount < MaxWork
    /\ workCount' = workCount + 1
    /\ context' = search[1]
    /\ search' = SubSeq(search, 2, Len(search))
    /\ ResetCandidate
    /\ reports' = {}
    /\ runs' = <<>>
    /\ firstBifurcation' = NullParam
    /\ popped' = Append(popped, search[1])
    /\ EnterScenario(1)
    /\ UNCHANGED <<scenarios, err>>

\* while (search.length > 0): pop a candidate and start its evaluation.
Pop ==
    /\ phase = "loop"
    /\ search # <<>>
    /\ workCount < MaxWork
    /\ workCount' = workCount + 1
    /\ context' = search[Len(search)]
    /\ search' = SubSeq(search, 1, Len(search) - 1)
    /\ ResetCandidate
    /\ reports' = {}
    /\ runs' = <<>>
    /\ firstBifurcation' = NullParam
    /\ popped' = Append(popped, search[Len(search)])
    /\ EnterScenario(1)
    /\ UNCHANGED <<scenarios, err>>

\* The stack is empty: solve returns without a program.
Exhausted ==
    /\ phase = "loop"
    /\ search = <<>>
    /\ phase' = "exhausted"
    /\ UNCHANGED <<scenarios, search, workCount, err>>
    /\ UNCHANGED <<candidateVars, runVars, historyVars>>

\* One turn of emulateNode's while (true): the report, then the instruction.
Step ==
    /\ phase = "run"
    /\ LET scenario == scenarios[si]
           rep == report(scenario, machine, encounters, targetable)
           reported == <<si, detailState(scenario, machine)[1], State(machine),
                         target(scenario, machine)>>
       IN  /\ encounters' = rep.encounters
           /\ targetable' = rep.targetable
           /\ reports' = reports \cup {reported}
           /\ IF Thrown(rep)
              THEN /\ err' = rep.err
                   /\ phase' = "caught"
                   /\ UNCHANGED machine
              ELSE LET r == Execute(context, scenario, machine)
                   IN  /\ machine' = r.m
                       /\ err' = r.err
                       /\ phase' = IF Thrown(r) THEN "caught" ELSE "run"
    /\ UNCHANGED <<scenarios, search, workCount, si>>
    /\ UNCHANGED <<context, bifurcation, violation, doneCount, runs, firstBifurcation, popped>>

\* Mutant of Handler: a ParamMissingError is counted as a finished scenario.
HandlerCountsMissingAsDone(e) ==
    CASE e.type = "StateViolationError" -> "violation"
      [] e.type = "ParamMissingError" -> "done"
      [] e.type = "DoneError" -> "done"
      [] e.type = "StuckError" -> "violation"
      [] OTHER -> "rethrow"

\* Mutant of Handler: the StuckError branch is missing, the error is rethrown.
HandlerRethrowsStuck(e) ==
    CASE e.type = "StateViolationError" -> "violation"
      [] e.type = "ParamMissingError" -> "bifurcation"
      [] e.type = "DoneError" -> "done"
      [] OTHER -> "rethrow"

\* The branch of the catch block that the error caught takes.
Handler(e) ==
    CASE e.type = "StateViolationError" -> "violation"
      [] e.type = "ParamMissingError" -> "bifurcation"
      [] e.type = "DoneError" -> "done"
      [] e.type = "StuckError" -> "violation"
      [] OTHER -> "rethrow"

\* The catch block of the scenario loop.
Catch ==
    /\ phase = "caught"
    /\ firstBifurcation' =
          IF err.type = "ParamMissingError" /\ firstBifurcation = NullParam
          THEN err.param
          ELSE firstBifurcation
    /\ CASE Handler(err) = "violation" ->
              \* violation = true; break
              /\ violation' = TRUE
              /\ phase' = "decide"
              /\ UNCHANGED <<bifurcation, doneCount, runVars, err>>
         [] Handler(err) = "bifurcation" ->
              \* bifurcation = err.param; continue
              /\ bifurcation' = err.param
              /\ EnterScenario(si + 1)
              /\ UNCHANGED <<violation, doneCount, err>>
         [] Handler(err) = "done" ->
              \* doneCount++; continue
              /\ doneCount' = doneCount + 1
              /\ EnterScenario(si + 1)
              /\ UNCHANGED <<bifurcation, violation, err>>
         [] OTHER ->
              \* throw err
              /\ phase' = "fatal"
              /\ UNCHANGED <<bifurcation, violation, doneCount, runVars, err>>
    /\ runs' = Append(runs, [outcome |-> err.type, io |-> machine.io])
    /\ UNCHANGED <<scenarios, search, workCount, context, targetable, reports, popped>>

\* Mutant of Decide: assignParam writes the key into the store it is given
\* (context.values[param.key] = value) and returns that store, so the first
\* option is bound in the candidate itself and the second call finds it bound.
DecideAssignsInPlace ==
    /\ phase = "decide"
    /\ IF doneCount = Len(scenarios)
       THEN /\ phase' = "success"
            /\ UNCHANGED <<search, err, context>>
       ELSE IF violation \/ bifurcation = NullParam
       THEN /\ phase' = "loop"
            /\ UNCHANGED <<search, err, context>>
       ELSE /\ context' = Extend(context, bifurcation, bifurcation.options[1])
            /\ phase' = "fatal"
            /\ err' = FatalError("already assigned")
            /\ UNCHANGED search
    /\ UNCHANGED <<scenarios, workCount>>
    /\ UNCHANGED <<bifurcation, violation, doneCount, targetable, runVars, historyVars>>

\* After the scenario loop: accept, skip, or branch.
Decide ==
    /\ phase = "decide"
    /\ IF doneCount = Len(scenarios)
       THEN /\ phase' = "success"
            /\ UNCHANGED <<search, err>>
       ELSE IF violation
       THEN /\ phase' = "loop"
            /\ UNCHANGED <<search, err>>
       ELSE IF bifurcation = NullParam
       THEN /\ phase' = "loop"
            /\ UNCHANGED <<search, err>>
       ELSE LET children == bifurcateParam(context, bifurcation)
            IN  IF Thrown(children)
                THEN /\ phase' = "fatal"
                     /\ err' = children.err
                     /\ UNCHANGED search
                ELSE /\ phase' = "loop"
                     /\ search' = search \o children.value
                     /\ UNCHANGED err
    /\ UNCHANGED <<scenarios, workCount>>
    /\ UNCHANGED <<candidateVars, runVars, historyVars>>

Next == Pop \/ Exhausted \/ Step \/ Catch \/ Decide

Spec == Init /\ [][Next]_vars

\* solve is one sequential loop: it takes its next step whenever it has one.
FairSpec == Spec /\ WF_vars(Next)

\* ------------------------------------------- emulateNode on given programs

\* An instruction is the list of <<kind, option>> its slot's keys are bound to.
\* The instructions slot 0 is drawn from: each takes a value from UP, so a
\* run is over when the program counter comes back to an exhausted input.
Slot0Pool ==
    << << <<"op", "MOV">>, <<"read-arg", "UP">>, <<"write-arg", "ACC">> >>,
       << <<"op", "ADD">>, <<"read-arg", "UP">> >>,
       << <<"op", "SUB">>, <<"read-arg", "UP">> >> >>

\* The instructions slots 1 and 2 are drawn from; the last leaves the slot
\* undecided, the one before it leaves the operand of an ADD undecided.
InstrPool ==
    << << <<"op", "ADD">>, <<"read-arg", "ACC">> >>,
       << <<"op", "ADD">>, <<"read-arg", "sym">>, <<"const", 2>> >>,
       << <<"op", "ADD">>, <<"read-arg", "UP">> >>,
       << <<"op", "SUB">>, <<"read-arg", "sym">>, <<"const", 2>> >>,
       << <<"op", "SUB">>, <<"read-arg", "ACC">> >>,
       << <<"op", "MOV">>, <<"read-arg", "ACC">>, <<"write-arg", "DOWN">> >>,
       << <<"op", "MOV">>, <<"read-arg", "sym">>, <<"const", 0>>, <<"write-arg", "ACC">> >>,
       << <<"op", "MOV">>, <<"read-arg", "UP">>, <<"write-arg", "NIL">> >>,
       << <<"op", "MOV">>, <<"read-arg", "ACC">>, <<"write-arg", "LEFT">> >>,
       << <<"op", "NEG">> >>,
       << <<"op", "SWP">> >>,
       << <<"op", "SAV">> >>,
       << <<"op", "NOP">> >>,
       << <<"op", "ADD">> >>,
       << >> >>

\* The store that binds the keys of slot pc as the instruction says, over rest.
RECURSIVE BindInstr(_, _, _)
BindInstr(ins, pc, rest) ==
    IF ins = <<>>
    THEN rest
    ELSE BindInstr(Tail(ins), pc, (<<Head(ins)[1], pc>> :> Head(ins)[2]) @@ rest)

ProgramOf(i0, i1, i2) ==
    BindInstr(Slot0Pool[i0], 0, BindInstr(InstrPool[i1], 1, BindInstr(InstrPool[i2], 2, <<>>)))

\* The scenarios the given programs are run against.
EmuScenarioPool ==
    { [input |-> <<999>>, output |-> <<999>>],
      [input |-> <<-999>>, output |-> <<999>>],
      [input |-> <<998, 1>>, output |-> <<998, 999>>],
      [input |-> <<1000>>, output |-> <<1000>>] }

\* solve has popped a given program as its only candidate and enters the
\* scenario loop with one scenario.
EmuInit ==
    /\ \E s \in EmuScenarioPool : scenarios = <<s>>
    /\ \E i0 \in DOMAIN Slot0Pool, i1 \in DOMAIN InstrPool, i2 \in DOMAIN InstrPool :
          context = ProgramOf(i0, i1, i2)
    /\ search = <<>>
    /\ workCount = 1
    /\ phase = "run"
    /\ bifurcation = NullParam
    /\ violation = FALSE
    /\ doneCount = 0
    /\ targetable = <<>>
    /\ si = 1
    /\ encounters = {}
    /\ machine = Machine(0, zero, zero, 0, 0)
    /\ err = NoError
    /\ reports = {}
    /\ runs = <<>>
    /\ firstBifurcation = NullParam
    /\ popped = <<context>>

EmuNext == Step \/ Catch

\* The emulator's run of a given program against a given scenario, up to the
\* end of the catch block.
EmuSpec == EmuInit /\ [][EmuNext]_vars

\* ------------------------------------------------------------------ helpers

Ended == phase \in {"success", "exhausted", "fatal"}

Calls(io, call) == SelectSeq(io, LAMBDA c : c.call = call)

Values(calls) == [i \in DOMAIN calls |-> calls[i].value]

OnPort(calls, port) == \A i \in DOMAIN calls : calls[i].port = port

\* ---------------------------------------------------------------------- C1

\* C1: whenever solve reports success, every scenario has been run from
\* (pc 0, acc 0, bak 0) to a DoneError, and in that run every recv was on
\* UP and returned the scenario's input values in order, every send was on
\* DOWN, and the values sent are exactly the scenario's expected output, the
\* last call of the run being the send of the last expected value.
C1_AcceptedRunsProduceExpectedOutput ==
    phase = "success" =>
        /\ Len(runs) = Len(scenarios)
        /\ \A i \in DOMAIN scenarios :
              LET io == runs[i].io
                  recvs == Calls(io, "recv")
                  sends == Calls(io, "send")
              IN  /\ runs[i].outcome = "DoneError"
                  /\ OnPort(recvs, "UP")
                  /\ Len(recvs) <= Len(scenarios[i].input)
                  /\ Values(recvs) = SubSeq(scenarios[i].input, 1, Len(recvs))
                  /\ OnPort(sends, "DOWN")
                  /\ Values(sends) = scenarios[i].output
                  /\ io # <<>> /\ io[Len(io)].call = "send"

\* An accepted candidate that both read its input and wrote its output.
C1_Witness ==
    /\ phase = "success"
    /\ scenarios # <<>>
    /\ \E i \in DOMAIN runs : Calls(runs[i].io, "recv") # <<>>

\* ---------------------------------------------------------------------- C2

\* The decision points: slots x {op, read-arg, write-arg, const}.
AllKeys == {"op", "read-arg", "write-arg", "const"} \X (0..(MAX_INSTRS - 1))

BoundKeys(store) == Cardinality(DOMAIN store)

\* The model stops following solve after MaxWork pops.
Horizon == phase = "loop" /\ search # <<>> /\ workCount = MaxWork

\* The stores a step pushed.
Pushed == SubSeq(search', Len(search) + 1, Len(search'))

\* Stores bind decision points only; a pop takes one store off the stack; the
\* step that follows a candidate's evaluation leaves the stack alone or pushes
\* stores that each bind exactly one key more than the candidate popped.
BranchingBindsOneMoreKey ==
    /\ [](\A i \in DOMAIN search : DOMAIN search[i] \subseteq AllKeys)
    /\ [][phase = "loop" /\ phase' # "exhausted" =>
            /\ Len(search') = Len(search) - 1
            /\ context' = search[Len(search)]]_vars
    /\ [][phase = "decide" =>
            /\ Len(search') >= Len(search)
            /\ SubSeq(search', 1, Len(search)) = search
            /\ \A i \in DOMAIN Pushed : BoundKeys(Pushed[i]) = BoundKeys(context) + 1]_vars
    /\ [][phase # "loop" /\ phase # "decide" => search' = search]_vars

\* C2: solve terminates with the work stack empty or a candidate accepted
\* (within the pops the model follows), every store pushed binding exactly one
\* key more than the store it was branched from.
C2_SolveTerminates ==
    /\ BranchingBindsOneMoreKey
    /\ <>(phase = "success" \/ phase = "exhausted" \/ Horizon)

\* What holds of C2: solve ends, by success, by an empty stack or by the Error
\* thrown out of it.
C2_SolveEnds ==
    /\ BranchingBindsOneMoreKey
    /\ <>(Ended \/ Horizon)

\* ---------------------------------------------------------------------- C3

\* The params of the program.
AllParams ==
    UNION {{paramOp(pc), argRead(pc), argWrite(pc), constantParam(pc)} :
              pc \in 0..(MAX_INSTRS - 1)}

\* C3: for the candidate at hand and every param p unbound in it,
\* bifurcateParam returns |p.options| stores, the i-th of which binds p.key to
\* the i-th option and agrees with the candidate on every other key.
C3_BifurcateParamBranchesCompletely ==
    \A p \in AllParams :
        ~Bound(context, p) =>
            LET children == bifurcateParam(context, p)
            IN  /\ ~Thrown(children)
                /\ Len(children.value) = Len(p.options)
                /\ \A i \in DOMAIN p.options :
                      /\ DOMAIN children.value[i] = DOMAIN context \cup {p.key}
                      /\ children.value[i][p.key] = p.options[i]
                      /\ \A k \in DOMAIN context : children.value[i][k] = context[k]

\* solve is about to branch a candidate that already binds some keys.
C3_Witness ==
    /\ phase = "decide"
    /\ context # emptyContext
    /\ doneCount # Len(scenarios) /\ ~violation
    /\ bifurcation # NullParam /\ ~Bound(context, bifurcation)

\* ---------------------------------------------------------------------- C4

\* The instruction at pc is a MOV to NIL from ACC or from a sym whose constant
\* is decided.
PointlessMovAt(store, pc) ==
    /\ Bound(store, paramOp(pc)) /\ store[paramOp(pc).key] = "MOV"
    /\ Bound(store, argWrite(pc)) /\ store[argWrite(pc).key] = "NIL"
    /\ Bound(store, argRead(pc))
    /\ \/ store[argRead(pc).key] = "ACC"
       \/ store[argRead(pc).key] = "sym" /\ Bound(store, constantParam(pc))

\* C4: a turn of the emulator that stands at a MOV to NIL from ACC or sym ends
\* the run with a StateViolationError (so the candidate is discarded).
C4_PointlessMovAborts ==
    [][phase = "run" /\ PointlessMovAt(context, machine.pc) =>
            phase' = "caught" /\ err'.type = "StateViolationError"]_vars

\* ---------------------------------------------------------------------- C5

SameDetailState(r1, r2) == r1[2] = r2[2] /\ r1[3] = r2[3]

\* C5: in an accepted candidate, two reports (of any scenarios) with the same
\* remaining input and the same state (pc, acc, bak) have the same remaining
\* expected output.
C5_AcceptedReportsAgree ==
    phase = "success" =>
        \A r1, r2 \in reports : SameDetailState(r1, r2) => r1[4] = r2[4]

\* An accepted candidate two of whose reports share a detail state.
C5_Witness ==
    /\ phase = "success"
    /\ \E r1, r2 \in reports : r1 # r2 /\ SameDetailState(r1, r2)

\* ---------------------------------------------------------------------- C6

\* A bound on the instructions a plain run is followed for.
PlainFuel == 12

PlainDone(store, scenario) ==
    PlainRun(store, scenario, Machine(0, zero, zero, 0, 0), PlainFuel) = "DoneError"

\* C6: when the report hook throws for a collision, the candidate is
\* incorrect: its plain run (no collision check) does not end in Done for
\* every scenario, so no completion of it does.
C6_CollisionProvesIncorrect ==
    (phase = "caught" /\ err.type = "StateViolationError" /\ err.site = "collision") =>
        \E i \in DOMAIN scenarios : ~PlainDone(context, scenarios[i])

\* ---------------------------------------------------------------------- C7

\* The last call of the run at hand was a send on DOWN made when the scenario's
\* expected output had all been sent already.
ExcessSend ==
    /\ si \in DOMAIN scenarios
    /\ machine.io # <<>>
    /\ machine.io[Len(machine.io)].call = "send"
    /\ machine.io[Len(machine.io)].port = "DOWN"
    /\ LET sends == Calls(machine.io, "send")
       IN  OnPort(sends, "DOWN") /\ Len(sends) > Len(scenarios[si].output)

\* C7: a send on DOWN past the expected output is a StateViolationError, and
\* the search goes on.
C7_ExcessSendIsStateViolation ==
    ExcessSend => err.type = "StateViolationError" /\ phase # "fatal"

\* ---------------------------------------------------------------------- C8

\* nice(store) holds no "???".
NoPlaceholder(store) ==
    \A pc \in DOMAIN nice(store) :
        \A j \in DOMAIN nice(store)[pc] : nice(store)[pc][j] # "???"

\* C8, as claimed: the store handed to nice on acceptance renders no "???".
C8_AcceptedStoreFullyBound == phase = "success" => NoPlaceholder(context)

\* C8, amended: for a scenario list that is not empty, the store handed to nice
\* on acceptance renders no "???".
C8_AcceptedStoreFullyBoundNonEmpty ==
    (phase = "success" /\ scenarios # <<>>) => NoPlaceholder(context)

\* A candidate accepted against two scenarios.
C8_Witness == phase = "success" /\ Len(scenarios) = 2 /\ doneCount = 2

\* ---------------------------------------------------------------------- C9

\* C9: every ParamMissingError of one candidate names the param the first one
\* named, so the branch point solve keeps (the last) is the first.
C9_MissingDecisionIsTheSame ==
    /\ bifurcation # NullParam => bifurcation = firstBifurcation
    /\ (phase = "caught" /\ err.type = "ParamMissingError"
            /\ firstBifurcation # NullParam) => err.param = firstBifurcation

\* The second of two different scenarios ends in a ParamMissingError after the
\* first did.
C9_Witness ==
    /\ phase = "caught" /\ err.type = "ParamMissingError"
    /\ si = 2 /\ scenarios[1] # scenarios[2]
    /\ firstBifurcation # NullParam
    /\ context # emptyContext

\* --------------------------------------------------------------------- C10

Disqualifying == {"StateViolationError", "StuckError"}

\* A finished run of the candidate ended in StateViolation or Stuck.
Disqualified == \E i \in DOMAIN runs : runs[i].outcome \in Disqualifying

\* C10: once a run of the candidate has ended in StateViolation or Stuck, that
\* run stays the candidate's last (no later scenario is run), the candidate is
\* not accepted, and the step after its evaluation pushes nothing.
C10_DisqualifiedCandidateIsDropped ==
    /\ [](Disqualified =>
            /\ phase \in {"decide", "loop", "exhausted"}
            /\ runs[Len(runs)].outcome \in Disqualifying
            /\ \A i \in 1..(Len(runs) - 1) : runs[i].outcome \notin Disqualifying)
    /\ [][Disqualified /\ phase = "decide" => phase' = "loop" /\ search' = search]_vars

\* A run is disqualified after an earlier scenario of the candidate was Done.
C10_Witness ==
    /\ phase = "decide"
    /\ Len(runs) = 2
    /\ runs[1].outcome = "DoneError"
    /\ runs[2].outcome \in Disqualifying

\* --------------------------------------------------------------------- C11

\* C11: the branch point solve holds is never bound in the candidate popped,
\* so bifurcateParam never calls assignParam with a bound key: solve never
\* ends by the `already assigned` Error, and the stores pushed bind the branch
\* point as a key the candidate did not have.
C11_BranchPointIsUnbound ==
    /\ bifurcation # NullParam => ~Bound(context, bifurcation)
    /\ ~(phase = "fatal" /\ err.site = "already assigned")
    /\ (phase = "loop" /\ bifurcation # NullParam /\ ~violation) =>
          \A i \in 1..Len(bifurcation.options) :
              LET child == search[Len(search) - Len(bifurcation.options) + i]
              IN  /\ DOMAIN child = DOMAIN context \cup {bifurcation.key}
                  /\ \A k \in DOMAIN context : child[k] = context[k]

\* A candidate that binds some keys already has just been branched.
C11_Witness ==
    /\ phase = "loop"
    /\ context # emptyContext
    /\ bifurcation # NullParam /\ ~violation
    /\ search # <<>> /\ Bound(search[Len(search)], bifurcation)

\* --------------------------------------------------------------------- C12

\* The four signals that end a run.
RunOutcomes == {"ParamMissingError", "StateViolationError", "StuckError", "DoneError"}

\* The run at hand is against a scenario that expects some output.
ExpectsOutput == si \in DOMAIN scenarios /\ scenarios[si].output # <<>>

\* C12: a run against a scenario with a non-empty expected output ends, and
\* ends in one of ParamMissing, StateViolation, Stuck and Done; a turn of the
\* emulator that reports a (pc, acc, bak, inputCounter, outputCounter) the run
\* has reported before executes nothing and ends the run in StateViolation.
C12_RunEnds ==
    /\ []((phase = "caught" /\ ExpectsOutput) => err.type \in RunOutcomes)
    /\ [][(phase = "run" /\ fullReport(machine) \in encounters) =>
            /\ phase' = "caught"
            /\ err' = StateViolationError("infinite loop")
            /\ machine' = machine]_vars
    /\ ((phase = "run" /\ ExpectsOutput) ~> (phase = "caught"))

\* A run that came back to a state it had reported, after a full cycle of
\* the program counter.
C12_Witness ==
    /\ phase = "caught" /\ ExpectsOutput
    /\ err = StateViolationError("infinite loop")
    /\ Cardinality(encounters) >= MAX_INSTRS

\* --------------------------------------------------------------------- C13

\* Store b binds every key of store a as a does: b is a or a descendant of a.
Extends(a, b) ==
    /\ DOMAIN a \subseteq DOMAIN b
    /\ \A k \in DOMAIN a : b[k] = a[k]

\* The position of the option a store binds key k to, in k's domain.
OptionIndex(store, k) ==
    LET p == CHOOSE q \in AllParams : q.key = k
    IN  CHOOSE i \in DOMAIN p.options : p.options[i] = store[k]

\* Stores a and b bind the same keys and differ on exactly the key k.
DifferOnlyAt(a, b, k) ==
    /\ DOMAIN a = DOMAIN b
    /\ k \in DOMAIN a
    /\ a[k] # b[k]
    /\ \A j \in DOMAIN a \ {k} : a[j] = b[j]

\* A candidate has just been popped.
JustPopped == phase = "run" /\ si = 1 /\ encounters = {} /\ popped # <<>>

\* C13: the candidate popped after a branch on p is the child that binds p to
\* the last option of p; in pop order the descendants of a candidate follow it
\* without interruption (what was on the stack before the branch waits for
\* all the children's subtrees); and of two stores that differ on one key only,
\* the one with the later option is popped first.
C13_DepthFirstLastOptionFirst ==
    /\ (phase = "loop" /\ bifurcation # NullParam /\ ~violation) =>
          search[Len(search)] =
              Extend(context, bifurcation, bifurcation.options[Len(bifurcation.options)])
    /\ JustPopped =>
          LET n == Len(popped)
          IN  /\ context = popped[n]
              /\ \A q \in 1..(n - 1) :
                    /\ ~Extends(popped[n], popped[q])
                    /\ \A p \in 1..(q - 1) :
                          Extends(popped[p], popped[n]) => Extends(popped[p], popped[q])
                    /\ \A k \in DOMAIN popped[n] :
                          DifferOnlyAt(popped[q], popped[n], k) =>
                              OptionIndex(popped[q], k) > OptionIndex(popped[n], k)

\* The candidate just popped is a sibling of an earlier one whose subtree was
\* popped in between.
C13_Witness ==
    /\ JustPopped
    /\ \E q \in 1..(Len(popped) - 2) :
          /\ \E k \in DOMAIN context : DifferOnlyAt(popped[q], context, k)
          /\ Extends(popped[q], popped[q + 1]) /\ popped[q + 1] # popped[q]

\* --------------------------------------------------------------------- C14

\* The stores of the stack that a step leaves on it.
Kept == SubSeq(search', 1, IF Len(search') < Len(search) THEN Len(search') ELSE Len(search))

OpAt == context[paramOp(machine.pc).key]

\* The value the instruction the machine stands at reads from its source:
\* the accumulator, the slot's constant, or the next input value.
ReadAt ==
    LET src == context[argRead(machine.pc).key]
    IN  IF src = "ACC" THEN machine.acc
        ELSE IF src = "sym" THEN context[constantParam(machine.pc).key]
        ELSE scenarios[si].input[machine.inputCounter + 1]

\* The turn of the emulator at hand executes its instruction without a throw.
NonFailingStep == phase = "run" /\ phase' = "run"

\* C15: a turn of the emulator whose instruction does not throw changes the
\* registers as the opcode's row says and nothing else (ADD acc + read; SUB
\* acc + (-read); MOV to ACC acc = read, MOV elsewhere no register; NEG -acc;
\* SWP exchanges acc and bak; SAV bak = acc; NOP nothing), and moves pc to
\* (pc + 1) mod MAX_INSTRS; and the state is reported before the opcode is
\* loaded: a turn at an undecided opcode still records its report.
C15_StepSemantics ==
    /\ [][NonFailingStep =>
            /\ machine'.pc = (machine.pc + 1) % MAX_INSTRS
            /\ fullReport(machine) \in encounters'
            /\ CASE OpAt = "ADD" ->
                      machine'.acc = machine.acc + ReadAt /\ machine'.bak = machine.bak
                 [] OpAt = "SUB" ->
                      machine'.acc = machine.acc + (0 - ReadAt) /\ machine'.bak = machine.bak
                 [] OpAt = "MOV" ->
                      /\ machine'.bak = machine.bak
                      /\ machine'.acc = IF context[argWrite(machine.pc).key] = "ACC"
                                        THEN ReadAt
                                        ELSE machine.acc
                 [] OpAt = "NEG" ->
                      machine'.acc = 0 - machine.acc /\ machine'.bak = machine.bak
                 [] OpAt = "SWP" ->
                      machine'.acc = machine.bak /\ machine'.bak = machine.acc
                 [] OpAt = "SAV" ->
                      machine'.acc = machine.acc /\ machine'.bak = machine.acc
                 [] OpAt = "NOP" ->
                      machine'.acc = machine.acc /\ machine'.bak = machine.bak]_vars
    /\ [][(phase = "run" /\ ~Bound(context, paramOp(machine.pc))
                /\ fullReport(machine) \notin encounters
                /\ ~Collides(targetable, scenarios[si], machine)) =>
            /\ fullReport(machine) \in encounters'
            /\ err' = ParamMissingError(paramOp(machine.pc))
            /\ machine' = machine]_vars

\* A SUB of the constant 2 from an accumulator that holds the input, then a
\* SWP, have been executed.
C15_Witness ==
    /\ phase = "run"
    /\ machine.pc = 0 /\ machine.inputCounter = 1
    /\ Bound(context, paramOp(1)) /\ context[paramOp(1).key] = "SUB"
    /\ Bound(context, paramOp(2)) /\ context[paramOp(2).key] = "SWP"
    /\ machine.bak = scenarios[1].input[1] - 2 /\ machine.acc = 0
    /\ machine.bak # 0

\* --------------------------------------------------------------------- C16

\* Every scenario of the list expects at least one output value.
AllExpectOutput == \A i \in DOMAIN scenarios : scenarios[i].output # <<>>

\* C16: in a search whose scenarios all expect some output, the `unreachable`
\* Error of send is never thrown: while a run goes on the output cursor is
\* below the expected length, so no send finds it at or beyond it.
C16_UnreachableIsUnreachable ==
    AllExpectOutput =>
        /\ err # FatalError("unreachable")
        /\ phase = "run" => machine.outputCounter < Len(scenarios[si].output)

\* A run goes on after a send that was not the last one expected.
C16_Witness ==
    /\ AllExpectOutput
    /\ phase = "run"
    /\ machine.outputCounter = 1
    /\ Calls(machine.io, "send") # <<>>

\* --------------------------------------------------------------------- C17

\* The fully decided program NOP; NOP; MOV c DOWN.
SendConstant(c) ==
    BindInstr(<< <<"op", "NOP">> >>, 0,
        BindInstr(<< <<"op", "NOP">> >>, 1,
            BindInstr(<< <<"op", "MOV">>, <<"read-arg", "sym">>, <<"const", c>>,
                         <<"write-arg", "DOWN">> >>, 2, <<>>)))

\* Such a program, run plainly from (0, 0, 0), sends exactly the expected
\* output of every scenario (and reads nothing).
SomeProgramSatisfies ==
    \E j \in DOMAIN CONST_OPTIONS :
        \A i \in DOMAIN scenarios : PlainDone(SendConstant(CONST_OPTIONS[j]), scenarios[i])

\* C17: solve does not exhaust the stack when a fully decided program
\* satisfies every scenario.
C17_SearchIsComplete ==
    (phase = "exhausted" /\ scenarios # <<>>) => ~SomeProgramSatisfies

\* --------------------------------------------------------------------- C18

InRange(v) == -ACC_MAX <= v /\ v <= ACC_MAX

\* Every input value of every scenario lies in [-999, 999].
InputsInRange ==
    \A i \in DOMAIN scenarios :
        \A j \in DOMAIN scenarios[i].input : InRange(scenarios[i].input[j])

\* C18: for scenarios whose input values lie in [-999, 999], the accumulator
\* and the backup register lie in [-999, 999] at every report: in the state
\* the emulator is about to report and in every state it has reported.
C18_RegistersStayInRange ==
    InputsInRange =>
        /\ phase = "run" => InRange(machine.acc) /\ InRange(machine.bak)
        /\ \A r \in reports : InRange(r[3][2]) /\ InRange(r[3][3])

\* Both bounds are reached, through a MOV into ACC, a SAV and a NEG.
C18_Witness ==
    /\ InputsInRange
    /\ phase = "run"
    /\ machine.acc = ACC_MAX /\ machine.bak = -ACC_MAX
    /\ Cardinality(reports) = MAX_INSTRS

\* --------------------------------------------------------------------- C19

\* The candidate's evaluation is over and it is neither accepted nor marked
\* as a violation.
Undecided == phase = "decide" /\ doneCount # Len(scenarios) /\ ~violation

\* C19: for a scenario list that is not empty, a candidate that is neither
\* accepted nor a violation has a branch point recorded, and the step that
\* follows pushes one store per option of it: the `no split` branch is not
\* taken.
C19_NoSplitIsUnreachable ==
    /\ []((scenarios # <<>> /\ Undecided) => bifurcation # NullParam)
    /\ [][(scenarios # <<>> /\ Undecided) =>
            /\ phase' = "loop"
            /\ Len(search') = Len(search) + Len(bifurcation.options)
            /\ Len(search') > Len(search)]_vars

\* Two scenarios were run, none was Done and none was a violation.
C19_Witness ==
    /\ Undecided
    /\ Len(scenarios) = 2 /\ Len(runs) = 2 /\ doneCount = 0
    /\ context # emptyContext

====
